---------------------------- MODULE Spec2Model ----------------------------
(***************************************************************************)
(* A model of src/main.py: the reconciliation of CRM accounts with the     *)
(* organizations and customers of a service-desk platform.                 *)
(*                                                                         *)
(* The program is sequential.  One action is one step of it up to and      *)
(* including its next network call (or sleep-and-retry), together with the *)
(* answer the other side gives; pc is the program's position.  The CRM and *)
(* the platform are the environment: their answers are drawn from the sets *)
(* below.                                                                  *)
(*                                                                         *)
(* Text is a sequence of characters (or of words, for the role texts), so  *)
(* that strip(), lower() and "in" are computed, not assumed.  Durations    *)
(* are in half seconds (time.sleep(1.5) is 3).                             *)
(*                                                                         *)
(* A behaviour enters the program by lambda_handler (Spec, FairSpec,       *)
(* SpecRerun) or by one of its functions, called alone (SpecAcc, SpecOrg,  *)
(* FairSpecOrg, SpecLink, SpecCust, SpecUpd).                              *)
(***************************************************************************)
EXTENDS Naturals, Integers, Sequences, FiniteSets, TLC

VARIABLES
    top,        \* the function a behaviour enters the program by
    pc,         \* the program's position
    calls,      \* how many times the entered function has been called
    \* the CRM and the platform
    crm,        \* the CRM's accounts and contacts when they are the same for
                \* every query of a behaviour, AnyData when each query is
                \* answered with any data
    orgs,       \* platform: the organizations' names, in listing order;
                \* an organization's id is its place in the listing
    customers,  \* platform: the directory's users' email addresses; a
                \* user's accountId is its place in the directory
    \* lambda_handler
    run,        \* which invocation of lambda_handler this is
    result,     \* what lambda_handler returned
    accounts,   \* the fetched accounts the loop has not reached yet
    nFetched,   \* len(accounts)
    ai,         \* how many accounts process_single_account was called for
    \* process_single_account
    acc_name,   \* acc["Name"]
    org_id,     \* what create_org returned
    ki,         \* link_org_to_service_desks: which key the loop is at
    fi,         \* which of the field updates (262-273, 304-307) is next
    ci,         \* how many of the account's contacts the loop has reached
    c,          \* the contact the loop is at, until create_jira_customer's POST
    email,      \* the contact's stripped email (also create_jira_customer's)
    final_role, \* the role selected for the contact
    acct_id,    \* what create_jira_customer returned
    account_ids,\* the customers resolved so far
    \* create_org, find_org_id
    name,       \* the stripped name
    start,      \* find_org_id: the offset of the page to request
    \* the field updates
    updKind,    \* "org" (update_org_detail_field) or "customer"
    updField,   \* field_name of the running field update
    updValue,   \* value of the running field update
    attempt,    \* the loop variable of the retry loop
    updRet,     \* what the last field update returned: "True" or "False"
    \* what was done, for the properties
    hist,       \* what the running call did: requests, answers and sleeps
                \* when a helper is entered alone, the steps of the account's
                \* pipeline when process_single_account is (nothing in a run)
    did,        \* the kinds of request made for the account being processed
    jiraCalled, \* whether the run has called the platform
    outcome,    \* how process_single_account ended for the account before
    orgs0,      \* the organizations when the run began
    customers0, \* the directory when the run began
    result0     \* what the run before returned

envVars == <<crm, orgs, customers>>
runVars ==
    <<run, result, accounts, nFetched, ai, outcome, orgs0, customers0, result0>>
accVars == <<acc_name, ki, fi, ci, c, final_role, account_ids>>
orgVars == <<name, start, org_id>>
custVars == <<email, acct_id>>
updVars == <<updKind, updField, updValue, attempt, updRet>>
obsVars == <<did, jiraCalled>>
vars == <<top, pc, calls, crm, orgs, customers, run, result, accounts, nFetched,
          ai, acc_name, org_id, ki, fi, ci, c, email, final_role,
          acct_id, account_ids, name, start, updKind, updField, updValue,
          attempt, updRet, hist, did, jiraCalled, outcome, orgs0, customers0,
          result0>>

-----------------------------------------------------------------------------
(* Python values *)

\* None, told apart from every text.
None == <<"<None>">>

\* (mutant) "value is None" in place of "not value".
FalsyOnlyNone(v) == v = None

\* "not value" for a value that is None or a text.
Falsy(v) == v = None \/ v = <<>>

\* "v or d"
Or(v, d) == IF Falsy(v) THEN d ELSE v

\* The values a detail field of a CRM record has: absent, empty, blank, and
\* a text.
FieldValues == {None, <<>>, <<" ">>, <<"x">>}

-----------------------------------------------------------------------------
(* Text *)

Whitespace == {" "}

\* str.strip(): leading and trailing whitespace removed.
RECURSIVE StripLeft(_)
StripLeft(s) ==
    IF s # <<>> /\ Head(s) \in Whitespace THEN StripLeft(Tail(s)) ELSE s

RECURSIVE StripRight(_)
StripRight(s) ==
    IF s # <<>> /\ s[Len(s)] \in Whitespace
    THEN StripRight(SubSeq(s, 1, Len(s) - 1))
    ELSE s

Strip(s) == StripRight(StripLeft(s))

\* str.lower(), character by character (word by word in a role text).
LowerChar(ch) ==
    CASE ch = "A" -> "a"
      [] ch = "E" -> "e"
      [] ch = "F" -> "f"
      [] ch = "Authorized" -> "authorized"
      [] ch = "Signatory" -> "signatory"
      [] ch = "Representative" -> "representative"
      [] ch = "Manager" -> "manager"
      [] OTHER -> ch
Lower(s) == [i \in 1..Len(s) |-> LowerChar(s[i])]

\* "sub in s"
Contains(sub, s) ==
    \E i \in 0..(Len(s) - Len(sub)) : SubSeq(s, i + 1, i + Len(sub)) = sub

Range(s) == {s[i] : i \in 1..Len(s)}
Min(a, b) == IF a <= b THEN a ELSE b

-----------------------------------------------------------------------------
(* The platform's organizations *)

\* No id: None.
NoId == 0

\* Names of the accounts the CRM holds (Account.Name).
AccountNames == {<<"a">>, <<"a", " ">>, <<"A">>}

\* How many organizations the platform holds before create_org is called
\* alone, at most.
MaxOrgs0 == 3
\* The names they have.  The platform's names carry no outer whitespace.
PlatformNames == {<<"a">>, <<"A">>, <<"c">>}
\* The platform's page size: the "limit" its pages report.
PageSize == 1
\* How many calls of a function entered alone are followed.
MaxCalls == 2

\* Listings without a repeated name, of at most n organizations.
RECURSIVE Listings(_)
Listings(n) ==
    IF n = 0 THEN {<<>>}
    ELSE LET shorter == Listings(n - 1) IN
         shorter \cup
         {Append(p[1], p[2]) :
            p \in {q \in shorter \X PlatformNames :
                     Len(q[1]) = n - 1 /\ q[2] \notin Range(q[1])}}

\* The statuses POST /organization is answered with besides 201.
OrgConflict == {400, 409}
OrgOtherErrors == {401, 500}

\* GET /organization?start&limit: the page at an offset.
OrgPage(from) ==
    [values |-> [i \in 1..(Min(from + PageSize, Len(orgs)) - Min(from, Len(orgs)))
                    |-> [id |-> from + i, name |-> orgs[from + i]]],
     isLastPage |-> from + PageSize >= Len(orgs),
     start |-> from,
     limit |-> PageSize]

\* A body without a listing (a JSON error body).
NoListing == [values |-> <<>>, isLastPage |-> TRUE, start |-> 0, limit |-> 0]

-----------------------------------------------------------------------------
(* The platform's user directory *)

\* Email addresses of the CRM's contacts, stripped and not empty.
ContactEmails == {<<"e">>, <<"E">>, <<"f">>}

\* How many users the directory holds before create_jira_customer is called
\* alone, at most.
MaxUsers0 == 2
\* How many users a directory search returns, at most.
MaxResults == 2

\* The platform keeps email addresses unique: no two users' addresses differ
\* only by case.
RECURSIVE Directories(_)
Directories(n) ==
    IF n = 0 THEN {<<>>}
    ELSE LET shorter == Directories(n - 1) IN
         shorter \cup
         {Append(p[1], p[2]) :
            p \in {q \in shorter \X ContactEmails :
                     /\ Len(q[1]) = n - 1
                     /\ \A i \in 1..Len(q[1]) : Lower(q[1][i]) # Lower(q[2])}}

\* The statuses POST /customer is answered with besides 201.
CustOtherErrors == {401, 500}

\* A user as GET /user/search returns it: the emailAddress is left out for a
\* user who hides it.
DirectoryUsers ==
    {[accountId |-> i, emailAddress |-> e] :
        i \in 1..Len(customers), e \in {None}} \cup
    {[accountId |-> i, emailAddress |-> customers[i]] : i \in 1..Len(customers)}

\* What a search may return: any users of the directory, near matches
\* included, each once, in any order.
RECURSIVE SearchResults(_)
SearchResults(n) ==
    IF n = 0 THEN {<<>>}
    ELSE LET shorter == SearchResults(n - 1) IN
         shorter \cup
         {Append(p[1], p[2]) :
            p \in {q \in shorter \X DirectoryUsers :
                     /\ Len(q[1]) = n - 1
                     /\ \A i \in 1..Len(q[1]) : q[1][i].accountId # q[2].accountId}}

-----------------------------------------------------------------------------
(* The CRM *)

\* How many accounts a run fetches, and how many contacts an account has, at
\* most.
MaxAccounts == 2
MaxContacts == 1
\* The same, when process_single_account is entered without a run around it.
MaxAccAccounts == 2
MaxAccContacts == 2
ContactsBound ==
    IF top = "process_single_account" THEN MaxAccContacts ELSE MaxContacts

\* Contact.Email, Contact.Position__c, Contact.Contact_Role__c
RawEmails == {None, <<" ">>, <<"e">>, <<"E", " ">>}
Positions ==
    {None, <<"Manager">>, <<"authorized">>, <<"Authorized", " ", "Signatory">>}
Roles ==
    {None, <<"signatory">>,
     <<"Authorized", " ", "Representative">>,
     <<"Authorized", " ", "Signatory", ";", "Authorized", " ", "Representative">>}

Contacts ==
    [Email : RawEmails, Position__c : Positions, Contact_Role__c : Roles]
NoContact == [Email |-> None, Position__c |-> None, Contact_Role__c |-> None]

\* Each query answered with any data.
AnyData == <<[Name |-> None, contacts |-> <<>>]>>

\* Sequences over S of length at most n.
RECURSIVE SeqsUpTo(_, _)
SeqsUpTo(S, n) ==
    IF n = 0 THEN {<<>>}
    ELSE LET shorter == SeqsUpTo(S, n - 1) IN
         shorter \cup
         {Append(p[1], p[2]) : p \in {q \in shorter \X S : Len(q[1]) = n - 1}}

\* get_recent_accounts: the accounts modified today.
RecentAccounts ==
    IF crm = AnyData THEN SeqsUpTo(AccountNames, MaxAccounts)
    ELSE {[i \in 1..Len(crm) |-> crm[i].Name]}

\* get_account_contacts: whether the account has a contact after the first
\* n, and what the i-th contact is.
MoreContacts(n) ==
    IF crm = AnyData THEN {FALSE} \cup {n < ContactsBound}
    ELSE {n < Len(crm[ai].contacts)}
ContactAt(i) ==
    IF crm = AnyData THEN Contacts ELSE {crm[ai].contacts[i]}

\* The other fields of a record (the account's address, industry, owner,
\* cluster and area; the contact's name and phones), read when they are
\* used: any value, or the same text on every read of unchanging data.
DetailValues == IF crm = AnyData THEN FieldValues ELSE {<<"x">>}

-----------------------------------------------------------------------------
(* What is recorded *)

\* A helper of the pipeline was entered alone: its requests, answers and
\* sleeps are recorded.
Entered == top \notin {"lambda_handler", "process_single_account"}
Log(e) == IF Entered THEN Append(hist, e) ELSE hist
Log2(e1, e2) == IF Entered THEN hist \o <<e1, e2>> ELSE hist

\* process_single_account was entered: the steps of the pipeline are
\* recorded, account by account.
Note(e) == IF top = "process_single_account" THEN Append(hist, e) ELSE hist

\* A request of kind k goes to the platform.
Did(k) ==
    /\ did' = did \cup {k}
    /\ jiraCalled' = TRUE

\* (mutant) no "except Exception" in process_single_account: the exception
\* reaches lambda_handler's.
RaisedToHandler == IF Entered THEN "raised" ELSE "run_except"

\* An exception nothing nearer catches: out of the function entered alone, or
\* to the "except Exception" of process_single_account.
Raised == IF Entered THEN "raised" ELSE "acc_except"

-----------------------------------------------------------------------------
(* ROBUST UPDATE FUNCTIONS: update_org_detail_field,                       *)
(* update_customer_detail_field                                            *)

OrgMaxAttempts == 3
CustMaxAttempts == 5
OrgInitialSleep == 2
CustInitialSleep == 1
OrgNotFoundSleep == 3
CustNotFoundSleep == 4
RateLimitSleep == 10
ErrorSleep == 2

\* (mutant) range(1, max_retries) in place of range(1, max_retries + 1).
MaxAttemptsShort(kind) == IF kind = "org" THEN OrgMaxAttempts ELSE CustMaxAttempts - 1

\* (mutant) a fixed backoff in place of one proportional to the attempt.
NotFoundSleepFixed(kind, n) ==
    IF kind = "org" THEN OrgNotFoundSleep ELSE CustNotFoundSleep

MaxAttempts(kind) == IF kind = "org" THEN OrgMaxAttempts ELSE CustMaxAttempts
InitialSleep(kind) == IF kind = "org" THEN OrgInitialSleep ELSE CustInitialSleep
NotFoundSleep(kind, n) ==
    IF kind = "org" THEN n * OrgNotFoundSleep ELSE n * CustNotFoundSleep

\* The statuses a PUT .../details is answered with: 200, 404, 429 and others.
PutStatuses == {200, 404, 429, 400, 500}

OrgFieldNames ==
    <<"Salesforce Account Id", "Company Name", "Company Address", "Industry",
      "Customer Type", "Account Manager", "Sales Cluster", "Sales Area">>
CustFieldNames == <<"ROLE", "Mobile Number", "Full Name", "Email Address">>

\* Where a field update returns to.
AfterUpdate ==
    IF top \in {"update_org_detail_field", "update_customer_detail_field"}
    THEN "returned"
    ELSE IF updKind = "org" THEN "org_field_ret" ELSE "cust_field_ret"

\* "if not value: return False", else the buffer sleep before the loop.
UpdEntry ==
    /\ pc = "upd_entry"
    /\ IF Falsy(updValue)
       THEN /\ updRet' = "False"
            /\ pc' = AfterUpdate
            /\ UNCHANGED <<attempt, hist>>
       ELSE /\ attempt' = 1
            /\ hist' = Log(<<"sleep", InitialSleep(updKind)>>)
            /\ pc' = "upd_put"
            /\ UNCHANGED updRet
    /\ UNCHANGED <<top, calls, envVars, runVars, accVars, orgVars, custVars,
                   updKind, updField, updValue, obsVars>>

\* The end of one iteration that did not return or break: the next attempt,
\* or "return False" after the last.
UpdNextAttempt ==
    IF attempt < MaxAttempts(updKind)
    THEN /\ attempt' = attempt + 1
         /\ pc' = "upd_put"
         /\ UNCHANGED updRet
    ELSE /\ updRet' = "False"
         /\ pc' = AfterUpdate
         /\ UNCHANGED attempt

\* (mutant) every status but 200 and 404 is backed off from and retried.
UpdOnStatusRetryOthers(status) ==
    CASE status = 200 -> "return"
      [] status = 404 -> "backoff"
      [] OTHER -> "ratelimit"

\* What the loop does with a status.
UpdOnStatus(status) ==
    CASE status = 200 -> "return"
      [] status = 404 -> "backoff"
      [] status = 429 -> "ratelimit"
      [] OTHER -> "break"

\* One iteration of the retry loop whose PUT is answered.
UpdPut ==
    /\ pc = "upd_put"
    /\ \E status \in PutStatuses :
        LET put == <<"put", updField, updValue, status>> IN
        CASE UpdOnStatus(status) = "return" ->
                /\ hist' = Log(put)
                /\ updRet' = "True"
                /\ pc' = AfterUpdate
                /\ UNCHANGED attempt
          [] UpdOnStatus(status) = "backoff" ->
                /\ hist' = Log2(put, <<"sleep", NotFoundSleep(updKind, attempt)>>)
                /\ UpdNextAttempt
          [] UpdOnStatus(status) = "ratelimit" ->
                /\ hist' = Log2(put, <<"sleep", RateLimitSleep>>)
                /\ UpdNextAttempt
          [] OTHER ->
                /\ hist' = Log(put)
                /\ updRet' = "False"
                /\ pc' = AfterUpdate
                /\ UNCHANGED attempt
    /\ Did(IF updKind = "org" THEN "org_put" ELSE "cust_put")
    /\ UNCHANGED <<top, calls, envVars, runVars, accVars, orgVars, custVars,
                   updKind, updField, updValue>>

\* (mutant) no "try" in the retry loop: the exception leaves the update.
UpdRaiseUncaught ==
    /\ pc = "upd_put"
    /\ hist' = Log(<<"put_raised", updField, updValue>>)
    /\ pc' = Raised
    /\ Did(IF updKind = "org" THEN "org_put" ELSE "cust_put")
    /\ UNCHANGED <<top, calls, envVars, runVars, accVars, orgVars, custVars,
                   updVars>>

\* One iteration whose PUT raises: "except Exception", sleep, next attempt.
UpdRaise ==
    /\ pc = "upd_put"
    /\ hist' = Log2(<<"put_raised", updField, updValue>>, <<"sleep", ErrorSleep>>)
    /\ UpdNextAttempt
    /\ Did(IF updKind = "org" THEN "org_put" ELSE "cust_put")
    /\ UNCHANGED <<top, calls, envVars, runVars, accVars, orgVars, custVars,
                   updKind, updField, updValue>>

-----------------------------------------------------------------------------
(* JIRA HELPERS: create_org, find_org_id *)

\* create_org returns id to its caller.
OrgReturn(id) ==
    /\ org_id' = id
    /\ pc' = IF top = "create_org" THEN "returned" ELSE "org_ret"

\* (mutant) the first organization of the page, whatever its name.
FirstOfPage(values, n) == IF values = <<>> THEN NoId ELSE values[1].id

\* (mutant) names compared without regard to case.
MatchInPageAnyCase(values, n) ==
    LET hits == {i \in 1..Len(values) : Lower(values[i].name) = Lower(n)} IN
    IF hits = {} THEN NoId
    ELSE values[CHOOSE i \in hits : \A j \in hits : i <= j].id

\* "for org in values: if org['name'] == name: return org['id']": the id of
\* the first organization of the page with that name, NoId when none has it.
RECURSIVE MatchInPage(_, _)
MatchInPage(values, n) ==
    IF values = <<>> THEN NoId
    ELSE IF Head(values).name = n THEN Head(values).id
    ELSE MatchInPage(Tail(values), n)

\* params={"start": start, "limit": 50}
RequestedLimit == 50

\* (mutant) the next page taken to begin the requested limit further on,
\* whatever limit the page reports.
NextStartByRequested(data) == data.start + RequestedLimit

\* start = data["start"] + data["limit"]
NextStart(data) == data.start + data.limit

orgFrame ==
    <<top, calls, crm, customers, runVars, accVars, custVars, updVars>>

\* create_org up to its POST, answered with a status.  The platform creates
\* an organization only for a name none has.
OrgPost ==
    /\ pc = "org_post"
    /\ \E status \in ({201} \cup OrgConflict \cup OrgOtherErrors) :
        /\ status = 201 => name \notin Range(orgs)
        /\ hist' = Log(<<"post", name, status>>)
        /\ CASE status = 201 ->
                  /\ orgs' = Append(orgs, name)
                  /\ OrgReturn(Len(orgs) + 1)
                  /\ UNCHANGED start
             [] status \in {400, 409} ->
                  /\ start' = 0
                  /\ pc' = "org_find"
                  /\ UNCHANGED <<orgs, org_id>>
             [] OTHER ->
                  /\ OrgReturn(NoId)
                  /\ UNCHANGED <<orgs, start>>
    /\ Did("org")
    /\ UNCHANGED <<orgFrame, name>>

\* create_org whose POST raises.
OrgPostRaise ==
    /\ pc = "org_post"
    /\ hist' = Log(<<"post_raised", name>>)
    /\ pc' = Raised
    /\ Did("org")
    /\ UNCHANGED <<orgFrame, orgs, orgVars>>

\* One iteration of find_org_id's loop: a page is requested and searched.
OrgFind ==
    /\ pc = "org_find"
    /\ \E data \in {OrgPage(start), NoListing} :
        LET found == MatchInPage(data.values, name) IN
        /\ hist' = Log(<<"get", start, data>>)
        /\ IF found # NoId
           THEN OrgReturn(found) /\ UNCHANGED start
           ELSE IF data.isLastPage
           THEN OrgReturn(NoId) /\ UNCHANGED start
           ELSE /\ start' = NextStart(data)
                /\ UNCHANGED <<pc, org_id>>
    /\ Did("org")
    /\ UNCHANGED <<orgFrame, orgs, name>>

\* find_org_id whose GET raises, or whose body is no JSON.
OrgFindRaise ==
    /\ pc = "org_find"
    /\ hist' = Log(<<"get_raised", start>>)
    /\ pc' = Raised
    /\ Did("org")
    /\ UNCHANGED <<orgFrame, orgs, orgVars>>

-----------------------------------------------------------------------------
(* JIRA HELPERS: search_jira_user, create_jira_customer *)

\* create_jira_customer returns id to its caller.
CustReturn(id) ==
    /\ acct_id' = id
    /\ pc' = IF top = "create_jira_customer" THEN "returned" ELSE "cust_ret"

\* u.get("emailAddress", "")
EmailAddress(u) == IF u.emailAddress = None THEN <<>> ELSE u.emailAddress

\* (mutant) addresses compared as they are, case included.
MatchUserExactCase(users, e) ==
    LET hits == {i \in 1..Len(users) : EmailAddress(users[i]) = e} IN
    IF hits = {} THEN NoId
    ELSE users[CHOOSE i \in hits : \A j \in hits : i <= j].accountId

\* "for u in users: if u.get('emailAddress', '').lower() == email.lower():
\* return u.get('accountId')", NoId when the loop ends.
RECURSIVE MatchUser(_, _)
MatchUser(users, e) ==
    IF users = <<>> THEN NoId
    ELSE IF Lower(EmailAddress(Head(users))) = Lower(e) THEN Head(users).accountId
    ELSE MatchUser(Tail(users), e)

custFrame ==
    <<top, calls, crm, orgs, runVars, acc_name, ki, fi, ci,
      final_role, account_ids, orgVars, updVars, email>>

\* create_jira_customer up to its POST, answered with a status.  The
\* platform creates a user only for an address no user has.
CustPost ==
    /\ pc = "cust_post"
    /\ \E status \in ({201} \cup {400, 409} \cup CustOtherErrors) :
        /\ status = 201 =>
              \A i \in 1..Len(customers) : Lower(customers[i]) # Lower(email)
        /\ hist' = Log(<<"post", email, status>>)
        /\ CASE status = 201 ->
                  /\ customers' = Append(customers, email)
                  /\ CustReturn(Len(customers) + 1)
             [] status \in {400, 409} ->
                  /\ pc' = "cust_search"
                  /\ UNCHANGED <<customers, acct_id>>
             [] OTHER ->
                  /\ CustReturn(NoId)
                  /\ UNCHANGED customers
    /\ c' = NoContact
    /\ Did("cust")
    /\ UNCHANGED custFrame

\* create_jira_customer whose POST raises.
CustPostRaise ==
    /\ pc = "cust_post"
    /\ hist' = Log(<<"post_raised", email>>)
    /\ pc' = Raised
    /\ c' = NoContact
    /\ Did("cust")
    /\ UNCHANGED <<custFrame, customers, acct_id>>

\* search_jira_user, answered with users.
CustSearch ==
    /\ pc = "cust_search"
    /\ \E users \in SearchResults(MaxResults) :
        /\ hist' = Log(<<"search", email, TRUE, users>>)
        /\ CustReturn(MatchUser(users, email))
    /\ Did("cust")
    /\ UNCHANGED <<custFrame, customers, c>>

\* search_jira_user, answered with an error status: "if not r.ok: return None".
CustSearchNotOk ==
    /\ pc = "cust_search"
    /\ hist' = Log(<<"search", email, FALSE, <<>>>>)
    /\ CustReturn(NoId)
    /\ Did("cust")
    /\ UNCHANGED <<custFrame, customers, c>>

\* search_jira_user whose GET raises, whose body is no JSON, or whose users
\* carry an emailAddress that is null.
CustSearchRaise ==
    /\ pc = "cust_search"
    /\ hist' = Log(<<"search_raised", email>>)
    /\ pc' = Raised
    /\ Did("cust")
    /\ UNCHANGED <<custFrame, customers, acct_id, c>>

-----------------------------------------------------------------------------
(* PROCESS LOGIC: process_single_account *)

SERVICE_DESK_KEYS == <<"MOBILE", "ERT", "SNDBX">>

\* The statuses POST /servicedesk/{key}/organization is answered with.
LinkStatuses == {204, 404, 500}

\* acc["Id"], and the constant "Customer".
AccId == <<"i">>
CustomerType == <<"Customer">>

SigLabel == <<"Authorized", " ", "Signatory">>
RepLabel == <<"Authorized", " ", "Representative">>
SigPhrase == <<"authorized", " ", "signatory">>
RepPhrase == <<"authorized", " ", "representative">>

\* (mutant) the representative tested first.
SelectRoleRepFirst(combined_roles) ==
    IF Contains(RepPhrase, combined_roles) THEN RepLabel
    ELSE IF Contains(SigPhrase, combined_roles) THEN SigLabel
    ELSE None

\* Priority Logic (290-297): final_role, None for "continue".
SelectRole(combined_roles) ==
    IF Contains(SigPhrase, combined_roles) THEN SigLabel
    ELSE IF Contains(RepPhrase, combined_roles) THEN RepLabel
    ELSE None

\* (position_raw + " " + role_raw).lower()
CombinedRoles(k) ==
    Lower(Or(k.Position__c, <<>>) \o <<" ">> \o Or(k.Contact_Role__c, <<>>))

\* str(v or "").strip()
StrStrip(v) == Strip(Or(v, <<>>))

\* The account's locals before process_single_account is called.
FreshLocals ==
    /\ acc_name = <<>>
    /\ org_id = NoId
    /\ ki = 0
    /\ fi = 0
    /\ ci = 0
    /\ c = NoContact
    /\ email = <<>>
    /\ final_role = None
    /\ acct_id = NoId
    /\ account_ids = <<>>
    /\ name = <<>>
    /\ start = 0
    /\ updKind = "org"
    /\ updField = ""
    /\ updValue = None
    /\ attempt = 0
    /\ updRet = "None"

\* The same, as what a return leaves them at.
ResetLocals ==
    /\ acc_name' = <<>>
    /\ org_id' = NoId
    /\ ki' = 0
    /\ fi' = 0
    /\ ci' = 0
    /\ c' = NoContact
    /\ email' = <<>>
    /\ final_role' = None
    /\ acct_id' = NoId
    /\ account_ids' = <<>>
    /\ name' = <<>>
    /\ start' = 0
    /\ updKind' = "org"
    /\ updField' = ""
    /\ updValue' = None
    /\ attempt' = 0
    /\ updRet' = "None"

\* process_single_account up to create_org's POST, for the next account of
\* the loop of lambda_handler.
ProcessBegin ==
    /\ pc = "loop"
    /\ accounts # <<>>
    /\ ai' = ai + 1
    /\ acc_name' = Head(accounts)
    /\ accounts' = Tail(accounts)
    /\ name' = Strip(Head(accounts))
    /\ pc' = "org_post"
    /\ hist' = IF top = "process_single_account"
               THEN <<<<"begin", ai + 1>>>>
               ELSE hist
    /\ UNCHANGED <<top, calls, envVars, run, result, nFetched, outcome, orgs0,
                   customers0, result0, ki, fi, ci, c, final_role,
                   account_ids, start, org_id, custVars, updVars, obsVars>>

\* (mutant) no "if not org_id" in process_single_account.
NoOrgNever(id) == FALSE

\* "not org_id"
NoOrg(id) == id = NoId

\* (mutant) link_org_to_service_desks is not called before the fields.
OrgResolvedNoLink ==
    /\ pc = "org_ret"
    /\ IF NoOrg(org_id)
       THEN pc' = "acc_skip" /\ UNCHANGED fi
       ELSE pc' = "org_field" /\ fi' = 1
    /\ hist' = Note(<<"org", org_id>>)
    /\ UNCHANGED <<top, calls, envVars, runVars, acc_name, ki, ci, c,
                   final_role, account_ids, orgVars, custVars, updVars,
                   obsVars>>

\* process_single_account has create_org's answer: "if not org_id: return",
\* else on to link_org_to_service_desks.
OrgResolved ==
    /\ pc = "org_ret"
    /\ IF NoOrg(org_id)
       THEN pc' = "acc_skip" /\ UNCHANGED ki
       ELSE pc' = "link" /\ ki' = 1
    /\ hist' = Note(<<"org", org_id>>)
    /\ UNCHANGED <<top, calls, envVars, runVars, acc_name, fi, ci, c,
                   final_role, account_ids, orgVars, custVars, updVars,
                   obsVars>>

\* The locals of a field update that has returned; process_single_account
\* does not keep what it returned.
ResetUpd ==
    /\ updKind' = "org"
    /\ updField' = ""
    /\ updValue' = None
    /\ attempt' = 0
    /\ updRet' = "None"

\* What is recorded of a link request: the key, and the answer's status (0
\* for a request that raised) when the links are what is looked at.
LinkNote(status) ==
    IF top = "link_org_to_service_desks"
    THEN Append(hist, <<"link", SERVICE_DESK_KEYS[ki], status>>)
    ELSE Note(<<"link", SERVICE_DESK_KEYS[ki]>>)

\* (mutant) a status that is neither 204 nor 404 is raised, as by
\* raise_for_status.
LinkPostChecked ==
    /\ pc = "link"
    /\ \E status \in LinkStatuses :
        /\ hist' = LinkNote(status)
        /\ IF status \notin {204, 404}
           THEN pc' = Raised /\ UNCHANGED <<ki, fi>>
           ELSE IF ki < Len(SERVICE_DESK_KEYS)
           THEN ki' = ki + 1 /\ UNCHANGED <<pc, fi>>
           ELSE pc' = "org_field" /\ fi' = 1 /\ UNCHANGED ki
    /\ Did("link")
    /\ UNCHANGED <<top, calls, envVars, runVars, acc_name, ci, c,
                   final_role, account_ids, orgVars, custVars, updVars>>

\* link_org_to_service_desks: one iteration; after the last key, on to the
\* organization's fields.
LinkPost ==
    /\ pc = "link"
    /\ \E status \in LinkStatuses :
        /\ hist' = LinkNote(status)
        /\ IF ki < Len(SERVICE_DESK_KEYS)
           THEN ki' = ki + 1 /\ UNCHANGED <<pc, fi>>
           ELSE pc' = "org_field" /\ fi' = 1 /\ UNCHANGED ki
    /\ Did("link")
    /\ UNCHANGED <<top, calls, envVars, runVars, acc_name, ci, c,
                   final_role, account_ids, orgVars, custVars, updVars>>

LinkRaise ==
    /\ pc = "link"
    /\ pc' = Raised
    /\ Did("link")
    /\ hist' = LinkNote(0)
    /\ UNCHANGED <<top, calls, envVars, runVars, accVars, orgVars, custVars,
                   updVars>>

\* The value of the fi-th organization field (262-273).  The detail values of
\* the account are read here, once each.
OrgFieldValues(i) ==
    CASE i = 1 -> {AccId}
      [] i = 2 -> {acc_name}
      [] i = 5 -> {CustomerType}
      [] OTHER -> DetailValues

\* One of the update_org_detail_field calls of 262-273, up to the entry of
\* the update; "if owner and owner.get('Name')" for the sixth.
OrgFieldCall ==
    /\ pc = "org_field"
    /\ \E v \in OrgFieldValues(fi) :
        IF fi = 6 /\ Falsy(v)
        THEN /\ fi' = fi + 1
             /\ UNCHANGED <<pc, updVars, hist>>
        ELSE /\ updKind' = "org"
             /\ updField' = OrgFieldNames[fi]
             /\ updValue' = v
             /\ attempt' = 0
             /\ pc' = "upd_entry"
             /\ hist' = Note(<<"org_field", OrgFieldNames[fi]>>)
             /\ UNCHANGED <<fi, updRet>>
    /\ UNCHANGED <<top, calls, envVars, runVars, acc_name, ki, ci, c,
                   final_role, account_ids, orgVars, custVars, obsVars>>

\* (mutant) a field update that returned False ends the organization's
\* fields.
OrgFieldRetStopOnFalse ==
    /\ pc = "org_field_ret"
    /\ IF fi < Len(OrgFieldNames) /\ updRet # "False"
       THEN fi' = fi + 1 /\ pc' = "org_field"
       ELSE pc' = "contacts_query" /\ UNCHANGED fi
    /\ ResetUpd
    /\ UNCHANGED <<top, calls, envVars, runVars, acc_name, ki, ci, c,
                   final_role, account_ids, orgVars, custVars, hist, obsVars>>

\* After an organization field update: the next field, or the contacts.
OrgFieldRet ==
    /\ pc = "org_field_ret"
    /\ IF fi < Len(OrgFieldNames)
       THEN fi' = fi + 1 /\ pc' = "org_field"
       ELSE pc' = "contacts_query" /\ UNCHANGED fi
    /\ ResetUpd
    /\ UNCHANGED <<top, calls, envVars, runVars, acc_name, ki, ci, c,
                   final_role, account_ids, orgVars, custVars, hist, obsVars>>

\* get_account_contacts, answered.
ContactsQuery ==
    /\ pc = "contacts_query"
    /\ ci' = 0
    /\ account_ids' = <<>>
    /\ pc' = "contact_loop"
    /\ did' = did \cup {"soql"}
    /\ hist' = Note(<<"contacts">>)
    /\ UNCHANGED <<top, calls, envVars, runVars, acc_name, ki, fi, c, final_role,
                   orgVars, custVars, updVars, jiraCalled>>

\* (mutant) the query is made again when it fails.
ContactsQueryRetry ==
    /\ pc = "contacts_query"
    /\ did' = did \cup {"soql"}
    /\ UNCHANGED <<top, pc, calls, envVars, runVars, accVars, orgVars, custVars,
                   updVars, hist, jiraCalled>>

\* get_account_contacts raises (soql's "SOQL error", or the request).
ContactsQueryFail ==
    /\ pc = "contacts_query"
    /\ pc' = Raised
    /\ did' = did \cup {"soql"}
    /\ UNCHANGED <<top, calls, envVars, runVars, accVars, orgVars, custVars,
                   updVars, hist, jiraCalled>>

\* (mutant) no "if not email: continue".
QualifiesAnyEmail(k) == SelectRole(CombinedRoles(k)) # None

\* Whether the contact qualifies: "if not email: continue", and the "else:
\* continue" of the Priority Logic.
Qualifies(k) == StrStrip(k.Email) # <<>> /\ SelectRole(CombinedRoles(k)) # None

\* One iteration of "for c in contacts" (279-297) for a contact that is
\* passed over, or up to create_jira_customer's POST for one that qualifies.
ContactSelect ==
    /\ pc = "contact_loop"
    /\ TRUE \in MoreContacts(ci)
    /\ ci' = ci + 1
    /\ \E k \in ContactAt(ci + 1) :
        IF Qualifies(k)
        THEN /\ c' = k
             /\ email' = StrStrip(k.Email)
             /\ final_role' = SelectRole(CombinedRoles(k))
             /\ pc' = "cust_post"
             /\ hist' = Note(<<"resolve", ci + 1>>)
        ELSE UNCHANGED <<pc, c, email, final_role, hist>>
    /\ UNCHANGED <<top, calls, envVars, runVars, acc_name, ki, fi,
                   account_ids, orgVars, acct_id, updVars, obsVars>>

\* The value of the fi-th customer field (304-307).  The contact's name and
\* phone numbers are read here.
CustFieldValues(i) ==
    CASE i = 1 -> {final_role}
      [] i = 2 -> {StrStrip(Or(m, p)) : m \in DetailValues, p \in DetailValues}
      [] i = 3 -> {StrStrip(n) : n \in DetailValues}
      [] OTHER -> {email}

\* One of the update_customer_detail_field calls of 304-307, up to the entry
\* of the update.
CustFieldCall ==
    /\ pc = "cust_field"
    /\ \E v \in CustFieldValues(fi) : updValue' = v
    /\ updKind' = "customer"
    /\ updField' = CustFieldNames[fi]
    /\ attempt' = 0
    /\ pc' = "upd_entry"
    /\ hist' = Note(<<"cust_field", ci, CustFieldNames[fi]>>)
    /\ UNCHANGED <<top, calls, envVars, runVars, accVars, orgVars, custVars,
                   updRet, obsVars>>

\* The contact's locals when the loop goes on to the next contact.
ResetContact ==
    /\ email' = <<>>
    /\ final_role' = None
    /\ acct_id' = NoId

\* process_single_account has create_jira_customer's answer: "if acct_id:",
\* the id is kept and the contact's fields follow; else the next contact.
ContactResolved ==
    /\ pc = "cust_ret"
    /\ IF acct_id = NoId
       THEN /\ pc' = "contact_loop"
            /\ ResetContact
            /\ UNCHANGED <<account_ids, fi>>
       ELSE /\ account_ids' = Append(account_ids, acct_id)
            /\ fi' = 1
            /\ pc' = "cust_field"
            /\ UNCHANGED <<email, final_role, acct_id>>
    /\ hist' = Note(<<"resolved", ci, acct_id>>)
    /\ UNCHANGED <<top, calls, envVars, runVars, acc_name, ki, ci, c,
                   orgVars, updVars, obsVars>>

\* After a customer field update: the next field, or the next contact.
CustFieldRet ==
    /\ pc = "cust_field_ret"
    /\ IF fi < Len(CustFieldNames)
       THEN /\ fi' = fi + 1
            /\ pc' = "cust_field"
            /\ UNCHANGED <<email, final_role, acct_id>>
       ELSE /\ pc' = "contact_loop"
            /\ ResetContact
            /\ UNCHANGED fi
    /\ ResetUpd
    /\ UNCHANGED <<top, calls, envVars, runVars, acc_name, ki, ci, c,
                   account_ids, orgVars, hist, obsVars>>

\* (mutant) no "if not ids: return" in add_users_to_org.
ContactsEndAlways ==
    /\ pc = "contact_loop"
    /\ FALSE \in MoreContacts(ci)
    /\ pc' = "attach"
    /\ UNCHANGED <<top, calls, envVars, runVars, accVars, orgVars, custVars,
                   updVars, hist, obsVars>>

\* The loop over the contacts ends: add_users_to_org, which returns at once
\* without ids ("if not ids: return").
ContactsEnd ==
    /\ pc = "contact_loop"
    /\ FALSE \in MoreContacts(ci)
    /\ pc' = IF account_ids = <<>> THEN "acc_end" ELSE "attach"
    /\ UNCHANGED <<top, calls, envVars, runVars, accVars, orgVars, custVars,
                   updVars, hist, obsVars>>

\* add_users_to_org's POST, whatever it is answered with.
AttachPost ==
    /\ pc = "attach"
    /\ pc' = "acc_end"
    /\ Did("attach")
    /\ hist' = Note(<<"attach", account_ids>>)
    /\ UNCHANGED <<top, calls, envVars, runVars, accVars, orgVars, custVars,
                   updVars>>

AttachRaise ==
    /\ pc = "attach"
    /\ pc' = Raised
    /\ Did("attach")
    /\ hist' = Note(<<"attach", account_ids>>)
    /\ UNCHANGED <<top, calls, envVars, runVars, accVars, orgVars, custVars,
                   updVars>>

\* process_single_account returns: at its end, at "if not org_id: return",
\* or from its "except Exception".
ProcessReturn ==
    /\ pc \in {"acc_end", "acc_skip", "acc_except"}
    /\ outcome' = (CASE pc = "acc_end" -> "done"
                      [] pc = "acc_skip" -> "skipped"
                      [] OTHER -> "raised")
    /\ ResetLocals
    /\ did' = {}
    /\ pc' = "loop"
    /\ hist' = Note(<<"return", pc>>)
    /\ UNCHANGED <<top, calls, envVars, run, result, accounts, nFetched, ai,
                   orgs0, customers0, result0, jiraCalled>>

-----------------------------------------------------------------------------
(* LAMBDA HANDLER *)

NoResult == [status |-> "none"]
OkResult(n) == [status |-> "ok", accounts_processed |-> n]

\* (mutant) the failure reported as a run of no accounts.
ErrorResultAsOk == [status |-> "ok", accounts_processed |-> 0]

ErrorResult == [status |-> "error", message |-> "str(e)"]

lambdaFrame ==
    <<top, calls, envVars, run, ai, outcome, orgs0, customers0, result0, accVars,
      orgVars, custVars, updVars, hist, obsVars>>

\* get_salesforce_token returns the credential.
GetToken ==
    /\ pc = "start"
    /\ pc' = "fetch"
    /\ UNCHANGED <<lambdaFrame, result, accounts, nFetched>>

\* get_salesforce_token raises: the request, "Failed to get Salesforce
\* token", or a body without the keys.
GetTokenFail ==
    /\ pc = "start"
    /\ pc' = "run_except"
    /\ UNCHANGED <<lambdaFrame, result, accounts, nFetched>>

\* get_recent_accounts returns the accounts.
Fetch ==
    /\ pc = "fetch"
    /\ \E accs \in RecentAccounts :
        /\ accounts' = accs
        /\ nFetched' = Len(accs)
    /\ pc' = "loop"
    /\ UNCHANGED <<lambdaFrame, result>>

\* get_recent_accounts raises.
FetchFail ==
    /\ pc = "fetch"
    /\ pc' = "run_except"
    /\ UNCHANGED <<lambdaFrame, result, accounts, nFetched>>

\* lambda_handler's "except Exception": the error result.
LambdaFail ==
    /\ pc = "run_except"
    /\ result' = ErrorResult
    /\ pc' = "done"
    /\ UNCHANGED <<top, calls, envVars, run, accounts, nFetched, ai, outcome,
                   orgs0, customers0, result0, hist, jiraCalled>>
    /\ ResetLocals
    /\ did' = {}

\* The loop over the accounts ends: the ok result.
LambdaReturn ==
    /\ pc = "loop"
    /\ accounts = <<>>
    /\ result' = OkResult(nFetched)
    /\ pc' = "done"
    /\ UNCHANGED <<lambdaFrame, accounts, nFetched>>

\* lambda_handler is invoked again, on the platform as the run before left
\* it.
MaxRuns == 2

Rerun ==
    /\ pc = "done"
    /\ run < MaxRuns
    /\ run' = run + 1
    /\ pc' = "start"
    /\ result' = NoResult
    /\ accounts' = <<>>
    /\ nFetched' = 0
    /\ ai' = 0
    /\ outcome' = "none"
    /\ orgs0' = orgs
    /\ customers0' = customers
    /\ result0' = result
    /\ jiraCalled' = FALSE
    /\ UNCHANGED <<top, calls, envVars, accVars, orgVars, custVars, updVars,
                   hist, did>>

-----------------------------------------------------------------------------
(* The specifications *)

\* How many organizations the platform holds before the first run, at most.
\* Its directory holds no user then.
MaxRunOrgs0 == 1

InitRunVars ==
    /\ run = 1
    /\ result = NoResult
    /\ accounts = <<>>
    /\ nFetched = 0
    /\ ai = 0
    /\ outcome = "none"
    /\ orgs0 = orgs
    /\ customers0 = customers
    /\ result0 = NoResult
    /\ did = {}
    /\ jiraCalled = FALSE
    /\ hist = <<>>

\* One run of lambda_handler, the CRM answering each query with any data.
Init ==
    /\ top = "lambda_handler"
    /\ pc = "start"
    /\ calls = 1
    /\ crm = AnyData
    /\ orgs \in Listings(MaxRunOrgs0)
    /\ customers = <<>>
    /\ InitRunVars
    /\ FreshLocals

ProcessNext ==
    \/ ProcessBegin \/ OrgResolved
    \/ OrgPost \/ OrgPostRaise \/ OrgFind \/ OrgFindRaise
    \/ LinkPost \/ LinkRaise
    \/ OrgFieldCall \/ OrgFieldRet
    \/ UpdEntry \/ UpdPut \/ UpdRaise
    \/ ContactsQuery \/ ContactsQueryFail
    \/ ContactSelect \/ ContactsEnd
    \/ CustPost \/ CustPostRaise
    \/ CustSearch \/ CustSearchNotOk \/ CustSearchRaise
    \/ ContactResolved
    \/ CustFieldCall \/ CustFieldRet
    \/ AttachPost \/ AttachRaise
    \/ ProcessReturn

Next ==
    \/ GetToken \/ GetTokenFail \/ Fetch \/ FetchFail \/ LambdaFail
    \/ LambdaReturn
    \/ ProcessNext

Spec == Init /\ [][Next]_vars

\* The program is one sequential process that is never held back: a step it
\* can take, it takes.
FairSpec == Spec /\ WF_vars(Next)

\* process_single_account called for each of up to MaxAccAccounts accounts,
\* one after the other, the CRM answering the contact query with any data
\* and the platform holding nothing before the first.
InitAcc ==
    /\ top = "process_single_account"
    /\ pc = "loop"
    /\ calls = 1
    /\ crm = AnyData
    /\ orgs = <<>>
    /\ customers = <<>>
    /\ run = 1
    /\ result = NoResult
    /\ accounts \in SeqsUpTo(AccountNames, MaxAccAccounts) \ {<<>>}
    /\ nFetched = Len(accounts)
    /\ ai = 0
    /\ outcome = "none"
    /\ orgs0 = orgs
    /\ customers0 = customers
    /\ result0 = NoResult
    /\ did = {}
    /\ jiraCalled = FALSE
    /\ hist = <<>>
    /\ FreshLocals

SpecAcc == InitAcc /\ [][ProcessNext]_vars

\* process_single_account from create_org's return to the first of the
\* organization's field updates: "if not org_id", link_org_to_service_desks
\* and the call of 262, for any id and any name.
InitLink ==
    /\ top = "link_org_to_service_desks"
    /\ pc = "org_ret"
    /\ calls = 1
    /\ crm = AnyData
    /\ orgs \in Listings(MaxOrgs0)
    /\ customers = <<>>
    /\ InitRunVars
    /\ acc_name \in AccountNames
    /\ name = Strip(acc_name)
    /\ org_id \in {NoId} \cup {i \in 1..Len(orgs) : orgs[i] = name}
    /\ ki = 0
    /\ fi = 0
    /\ ci = 0
    /\ c = NoContact
    /\ email = <<>>
    /\ final_role = None
    /\ acct_id = NoId
    /\ account_ids = <<>>
    /\ start = 0
    /\ updKind = "org"
    /\ updField = ""
    /\ updValue = None
    /\ attempt = 0
    /\ updRet = "None"

NextLink == OrgResolved \/ LinkPost \/ LinkRaise \/ OrgFieldCall

SpecLink == InitLink /\ [][NextLink]_vars

\* The CRM's data of a behaviour in which they do not change.
MaxRerunAccounts == 2
MaxRerunContacts == 1
RerunContacts ==
    {[Email |-> <<"e">>, Position__c |-> SigLabel, Contact_Role__c |-> None],
     [Email |-> <<"E", " ">>, Position__c |-> <<"Manager">>, Contact_Role__c |-> RepLabel],
     [Email |-> None, Position__c |-> SigLabel, Contact_Role__c |-> None]}
Datasets ==
    SeqsUpTo([Name : AccountNames,
              contacts : SeqsUpTo(RerunContacts, MaxRerunContacts)],
             MaxRerunAccounts)

\* Runs of lambda_handler one after the other over the same CRM data.
InitRerun ==
    /\ top = "lambda_handler"
    /\ pc = "start"
    /\ calls = 1
    /\ crm \in Datasets
    /\ orgs = <<>>
    /\ customers = <<>>
    /\ InitRunVars
    /\ FreshLocals

NextRerun == Next \/ Rerun

SpecRerun == InitRerun /\ [][NextRerun]_vars

\* create_org called alone, MaxCalls times, with any names:
\* "name = str(name).strip()".
CallCreateOrg ==
    /\ top = "create_org"
    /\ pc \in {"idle", "returned", "raised"}
    /\ calls < MaxCalls
    /\ \E n \in AccountNames :
        /\ name' = Strip(n)
        /\ hist' = <<<<"call", n, orgs>>>>
    /\ calls' = calls + 1
    /\ pc' = "org_post"
    /\ UNCHANGED <<top, envVars, runVars, accVars, start, org_id, custVars,
                   updVars, obsVars>>

InitOrg ==
    /\ top = "create_org"
    /\ pc = "idle"
    /\ calls = 0
    /\ crm = AnyData
    /\ orgs \in Listings(MaxOrgs0)
    /\ customers = <<>>
    /\ InitRunVars
    /\ FreshLocals

NextOrg == CallCreateOrg \/ OrgPost \/ OrgPostRaise \/ OrgFind \/ OrgFindRaise

SpecOrg == InitOrg /\ [][NextOrg]_vars

\* The same, the calls being of one sequential process that is never held
\* back.
FairSpecOrg == SpecOrg /\ WF_vars(NextOrg)

\* create_jira_customer called alone, MaxCalls times, with any emails.
CallCreateCustomer ==
    /\ top = "create_jira_customer"
    /\ pc \in {"idle", "returned", "raised"}
    /\ calls < MaxCalls
    /\ \E e \in ContactEmails :
        /\ email' = e
        /\ hist' = <<<<"call", e, customers>>>>
    /\ calls' = calls + 1
    /\ pc' = "cust_post"
    /\ UNCHANGED <<top, envVars, runVars, accVars, orgVars, acct_id, updVars,
                   obsVars>>

InitCust ==
    /\ top = "create_jira_customer"
    /\ pc = "idle"
    /\ calls = 0
    /\ crm = AnyData
    /\ orgs = <<>>
    /\ customers \in Directories(MaxUsers0)
    /\ InitRunVars
    /\ FreshLocals

NextCust ==
    \/ CallCreateCustomer
    \/ CustPost
    \/ CustPostRaise
    \/ CustSearch
    \/ CustSearchNotOk
    \/ CustSearchRaise

SpecCust == InitCust /\ [][NextCust]_vars

\* A field update called alone, with any field and value.
InitUpd ==
    /\ top \in {"update_org_detail_field", "update_customer_detail_field"}
    /\ pc = "upd_entry"
    /\ calls = 1
    /\ crm = AnyData
    /\ orgs = <<>>
    /\ customers = <<>>
    /\ InitRunVars
    /\ acc_name = <<>>
    /\ org_id = NoId
    /\ ki = 0
    /\ fi = 0
    /\ ci = 0
    /\ c = NoContact
    /\ email = <<>>
    /\ final_role = None
    /\ acct_id = NoId
    /\ account_ids = <<>>
    /\ name = <<>>
    /\ start = 0
    /\ updKind = (IF top = "update_org_detail_field" THEN "org" ELSE "customer")
    /\ updField \in (IF updKind = "org"
                     THEN {OrgFieldNames[1], OrgFieldNames[4]}
                     ELSE {CustFieldNames[1], CustFieldNames[2]})
    /\ updValue \in FieldValues
    /\ attempt = 0
    /\ updRet = "None"

NextUpd == UpdEntry \/ UpdPut \/ UpdRaise

SpecUpd == InitUpd /\ [][NextUpd]_vars

-----------------------------------------------------------------------------
(* Reading hist *)

IsPut(e) == e[1] \in {"put", "put_raised"}
IsSleep(e) == e[1] = "sleep"
Puts(h) == SelectSeq(h, IsPut)
Sleeps(h) == SelectSeq(h, IsSleep)
\* The answers to the PUTs of h, in order; 0 for a PUT that raised.
Answers(h) ==
    [i \in 1..Len(Puts(h)) |-> IF Puts(h)[i][1] = "put" THEN Puts(h)[i][4] ELSE 0]
Rep(n, x) == [i \in 1..n |-> x]

UpdReturned ==
    /\ top \in {"update_org_detail_field", "update_customer_detail_field"}
    /\ pc = "returned"

-----------------------------------------------------------------------------
(* Claims about the field updates, under SpecUpd *)

\* C7: a field update (organization or customer) given an empty or None value
\* makes no network call, does not sleep and returns False; and no PUT ever
\* carries an empty or None value.
C7_EmptyValueIsNoOp ==
    /\ (UpdReturned /\ (updValue = None \/ updValue = <<>>))
          => (hist = <<>> /\ updRet = "False")
    /\ \A i \in 1..Len(hist) :
          IsPut(hist[i]) => (hist[i][3] # None /\ hist[i][3] # <<>>)

C7_Witness ==
    /\ UpdReturned
    /\ updKind = "customer"
    /\ updValue = <<>>
    /\ updRet = "False"

\* C8: an organization field update answered 404, 404, 200 returns True after
\* exactly three PUTs: one initial sleep before the first PUT, and after each
\* 404 a sleep proportional to the attempt number, the second strictly longer
\* than the first.
C8_OrgRetry404Then200 ==
    (top = "update_org_detail_field" /\ pc = "returned"
        /\ Answers(hist) = <<404, 404, 200>>)
    => /\ updRet = "True"
       /\ Len(Puts(hist)) = 3
       /\ Len(hist) = 6
       /\ hist[1] = <<"sleep", 2>>
       /\ IsPut(hist[2]) /\ IsSleep(hist[3])
       /\ IsPut(hist[4]) /\ IsSleep(hist[5])
       /\ IsPut(hist[6])
       /\ hist[3][2] = 1 * 3
       /\ hist[5][2] = 2 * 3
       /\ hist[3][2] < hist[5][2]

C8_Witness ==
    /\ top = "update_org_detail_field"
    /\ pc = "returned"
    /\ Answers(hist) = <<404, 404, 200>>
    /\ updRet = "True"

\* C9: an organization field update makes at most 3 PUTs and a customer field
\* update at most 5, whatever the answers; a customer update whose first
\* k <= 4 PUTs are answered 404 makes attempt k+1, and returns True when that
\* one is answered 200; after five 404s it returns False with no sixth PUT.
C9_RetryBudget ==
    /\ updKind = "org" => Len(Puts(hist)) <= 3
    /\ updKind = "customer" => Len(Puts(hist)) <= 5
    /\ \A k \in 0..4 :
          (top = "update_customer_detail_field" /\ ~Falsy(updValue)) =>
            /\ (Answers(hist) = Rep(k, 404) /\ pc # "upd_entry")
                  => (pc = "upd_put" /\ attempt = k + 1)
            /\ (Answers(hist) = Rep(k, 404) \o <<200>>)
                  => (pc = "returned" /\ updRet = "True")
    /\ (top = "update_customer_detail_field" /\ Answers(hist) = Rep(5, 404))
          => (pc = "returned" /\ updRet = "False")

C9_Witness ==
    /\ top = "update_customer_detail_field"
    /\ pc = "returned"
    /\ Answers(hist) = Rep(4, 404) \o <<200>>
    /\ updRet = "True"

-----------------------------------------------------------------------------
(* Claims about create_org, under SpecOrg *)

\* The running call of an entered function: its argument and the platform's
\* organizations when it was called.
CallArg == hist[1][2]
CallOrgs == hist[1][3]
\* The call's POST was answered with 400 or 409.
PostConflicted ==
    \E i \in 1..Len(hist) :
        hist[i][1] = "post" /\ hist[i][3] \in {400, 409}
\* Every listing request of the call was answered with a page of the listing.
ListingAnswered ==
    \A i \in 1..Len(hist) :
        hist[i][1] = "get" => hist[i][3] # NoListing

\* C1: create_org called for a name an organization already has, its POST
\* answered 400 or 409 and its listing requests answered with pages, returns
\* the id of the organization with exactly that name and adds none; and the
\* platform never holds two organizations of one name.
C1_CreateOrgIdempotent ==
    /\ (top = "create_org" /\ pc = "returned" /\ PostConflicted
          /\ ListingAnswered /\ Strip(CallArg) \in Range(CallOrgs))
        => /\ org_id # NoId
           /\ org_id \in 1..Len(CallOrgs)
           /\ CallOrgs[org_id] = Strip(CallArg)
           /\ orgs = CallOrgs
    /\ \A i, j \in 1..Len(orgs) : orgs[i] = orgs[j] => i = j

\* The existing organization is found on the last page of the listing.
C1_Witness ==
    /\ top = "create_org"
    /\ pc = "returned"
    /\ calls = 2
    /\ PostConflicted
    /\ CallArg = <<"a", " ">>
    /\ org_id = 3
    /\ orgs = CallOrgs

-----------------------------------------------------------------------------
(* Claims about create_jira_customer, under SpecCust *)

\* The users the call's search returned; none when it was answered with an
\* error status.
Searched == \E i \in 1..Len(hist) : hist[i][1] = "search"
SearchedUsers ==
    LET i == CHOOSE k \in 1..Len(hist) : hist[k][1] = "search" IN hist[i][4]
\* The places in a result of the users whose address is e but for case.
ExactMatches(users, e) ==
    {i \in 1..Len(users) :
        /\ users[i].emailAddress # None
        /\ Len(users[i].emailAddress) = Len(e)
        /\ \A k \in 1..Len(e) :
              LowerChar(users[i].emailAddress[k]) = LowerChar(e[k])}

\* C2: create_jira_customer whose POST is answered 400 or 409 returns the
\* accountId of the first user of the search result whose emailAddress is the
\* email but for case, never that of a user with another address, and None
\* when the result holds no such user.
C2_CustomerConflictRecovers ==
    (top = "create_jira_customer" /\ pc = "returned" /\ PostConflicted /\ Searched)
    => LET users == SearchedUsers
           hits == ExactMatches(users, CallArg) IN
       /\ hits # {} =>
            \E i \in hits :
                /\ \A j \in hits : i <= j
                /\ acct_id = users[i].accountId
                /\ acct_id # NoId
       /\ hits = {} => acct_id = NoId
       /\ customers = hist[1][3]

\* The result holds a near match first and then the user sought, whose
\* address differs by case.
C2_Witness ==
    /\ top = "create_jira_customer"
    /\ pc = "returned"
    /\ PostConflicted
    /\ Searched
    /\ CallArg = <<"E">>
    /\ Len(SearchedUsers) = 2
    /\ SearchedUsers[1].emailAddress = <<"f">>
    /\ SearchedUsers[2].emailAddress = <<"e">>
    /\ acct_id = SearchedUsers[2].accountId


-----------------------------------------------------------------------------
(* C4: an account without an organization is skipped *)

\* The requests process_single_account makes beyond create_org's.
AfterOrg == {"link", "org_put", "soql", "cust", "cust_put", "attach"}

\* C4: for an account create_org returns no id for, process_single_account
\* makes no link request, no organization field update, no contact query, no
\* customer resolution and no attach request, and returns; the accounts
\* after it are still processed: none is left out when the account returns,
\* and the run ends ok with every fetched account attempted.
C4_NoOrgSkipsAccount ==
    /\ org_id = NoId => did \cap AfterOrg = {}
    /\ pc = "acc_skip" => org_id = NoId /\ did = {"org"}
    /\ pc \in {"acc_skip", "loop"} => ai + Len(accounts) = nFetched
    /\ pc = "done" /\ ai > 0 =>
          ai = nFetched /\ accounts = <<>> /\ result.status = "ok"

\* The account before was skipped, and this one is at its second link.
C4_Witness ==
    /\ outcome = "skipped"
    /\ ai = 2
    /\ pc = "link"
    /\ ki = 2

-----------------------------------------------------------------------------
(* C5: a fetched run completes *)

\* No exception has left process_single_account, no account was left out,
\* and a run that ended after its fetch ended ok with the count.
C5_Contained ==
    /\ pc = "run_except" => ai = 0
    /\ pc \notin {"start", "fetch", "run_except", "done"} =>
          ai + Len(accounts) = nFetched
    /\ pc = "done" /\ (ai > 0 \/ result.status = "ok") =>
          /\ result = OkResult(nFetched)
          /\ ai = nFetched
          /\ accounts = <<>>

\* C5: an exception raised in an account's pipeline does not leave
\* process_single_account (lambda_handler's "except" is reached only before
\* any account is processed); the accounts are taken one by one, none left
\* out; and a run that got its accounts does end, with status ok and
\* accounts_processed the number of accounts fetched.
C5_FetchedRunCompletes ==
    /\ []C5_Contained
    /\ (pc = "loop") ~> (pc = "done" /\ result = OkResult(nFetched))

\* A run of two accounts ends ok though the last account's pipeline raised.
C5_Witness ==
    /\ pc = "done"
    /\ result = OkResult(2)
    /\ outcome = "raised"
    /\ jiraCalled

-----------------------------------------------------------------------------
(* C6: a run that cannot fetch *)

\* C6: when get_salesforce_token or get_recent_accounts raises,
\* lambda_handler returns a result of status error with a message, having
\* processed no account and made no request to the platform.
C6_FetchFailureIsFatal ==
    [][pc = "run_except" =>
          /\ pc' = "done"
          /\ result'.status = "error"
          /\ "message" \in DOMAIN result'
          /\ ai' = 0
          /\ outcome' = "none"
          /\ ~jiraCalled'
          /\ orgs' = orgs0 /\ customers' = customers0]_vars

\* The run ended with the error result.
C6_Witness ==
    /\ pc = "done"
    /\ result.status = "error"
    /\ ~jiraCalled

-----------------------------------------------------------------------------
(* C10: the role of a contact *)

HasSig(k) == Contains(<<"authorized", " ", "signatory">>, CombinedRoles(k))
HasRep(k) == Contains(<<"authorized", " ", "representative">>, CombinedRoles(k))

\* The contact was selected: create_jira_customer is about to be called
\* for it.
Selected == top = "lambda_handler" /\ pc = "cust_post"

\* C10: a selected contact whose combined lower-cased role text holds both
\* phrases has the role "Authorized Signatory"; one that holds only
\* "authorized representative" has "Authorized Representative"; every
\* selected contact has one of the two, and that role is the value of its
\* ROLE field update.
C10_RolePriority ==
    /\ Selected /\ HasSig(c) /\ HasRep(c) => final_role = SigLabel
    /\ Selected /\ ~HasSig(c) /\ HasRep(c) => final_role = RepLabel
    /\ Selected => final_role \in {SigLabel, RepLabel}
    /\ top = "lambda_handler" /\ pc \in {"cust_search", "cust_ret", "cust_field"} =>
          final_role \in {SigLabel, RepLabel}
    /\ top = "lambda_handler" /\ updField = "ROLE" =>
          /\ updValue = final_role
          /\ final_role \in {SigLabel, RepLabel}

\* A contact with both phrases in its role text was selected.
C10_Witness ==
    /\ Selected
    /\ HasSig(c)
    /\ HasRep(c)
    /\ c.Position__c = <<"Manager">>
    /\ final_role = SigLabel

-----------------------------------------------------------------------------
(* C3: a second run over the same data *)

NoRepeat(s) == \A i, j \in 1..Len(s) : s[i] = s[j] => i = j
NoRepeatAnyCase(s) == \A i, j \in 1..Len(s) : Lower(s[i]) = Lower(s[j]) => i = j
IsPrefix(s, t) == Len(s) <= Len(t) /\ \A i \in 1..Len(s) : s[i] = t[i]

\* When the run began, the platform held the organization of every account
\* and the customer of every qualifying contact.
Synced0 ==
    /\ \A i \in 1..Len(crm) : Strip(crm[i].Name) \in Range(orgs0)
    /\ \A i \in 1..Len(crm) : \A j \in 1..Len(crm[i].contacts) :
          Qualifies(crm[i].contacts[j]) =>
             \E u \in 1..Len(customers0) :
                Lower(customers0[u]) = Lower(StrStrip(crm[i].contacts[j].Email))

\* C3 as stated, for a second run the CRM gave the accounts to, after a
\* first run that returned status ok: it leaves the organizations and the
\* customers as they were and returns status ok.
C3_AsStated ==
    /\ run > 1
    /\ result0.status = "ok"
    /\ pc = "done"
    /\ ai > 0 \/ result.status = "ok"
    =>
        /\ orgs = orgs0
        /\ customers = customers0
        /\ result.status = "ok"

\* C3: in the second run no organization's name and no customer's address
\* is repeated, and what the platform held keeps its ids; the run returns
\* status error only when the CRM did not give the accounts; and when the
\* first run left the organization of every account and the customer of
\* every qualifying contact, the second run adds nothing and gets for each
\* account the id of the organization of its name.
C3_SecondRunIdempotent ==
    run > 1 =>
        /\ NoRepeat(orgs)
        /\ NoRepeatAnyCase(customers)
        /\ IsPrefix(orgs0, orgs)
        /\ IsPrefix(customers0, customers)
        /\ pc = "done" /\ result.status = "error" => ai = 0
        /\ Synced0 => orgs = orgs0 /\ customers = customers0
        /\ Synced0 /\ pc = "org_ret" /\ org_id # NoId => orgs0[org_id] = name

\* A second run ended ok over two organizations and a customer the first
\* run left.
C3_Witness ==
    /\ run = 2
    /\ pc = "done"
    /\ result = OkResult(2)
    /\ outcome = "done"
    /\ Synced0
    /\ Len(orgs0) = 2
    /\ Len(customers0) = 1
    /\ jiraCalled

-----------------------------------------------------------------------------
(* More claims about the field updates, under SpecUpd *)

\* A PUT answered with a status the loop does not retry.
NonRetryable(e) == e[1] = "put" /\ e[4] \notin {200, 404, 429}

\* C13: in a field update a PUT answered with a status other than 200, 404
\* and 429 is the last thing the update does: no PUT and no sleep follows
\* it, and the update has returned False, with attempts left or not.
C13_OtherStatusStops ==
    \A i \in 1..Len(hist) :
        NonRetryable(hist[i]) =>
            /\ i = Len(hist)
            /\ pc = "returned"
            /\ updRet = "False"

\* A customer update stopped by a 500 at its second attempt of five.
C13_Witness ==
    /\ top = "update_customer_detail_field"
    /\ pc = "returned"
    /\ Answers(hist) = <<404, 500>>
    /\ attempt = 2
    /\ updRet = "False"

\* The attempts a field update has: 3 for an organization, 5 for a customer.
Budget == IF updKind = "org" THEN 3 ELSE 5

\* C18: a PUT that raises is caught inside the update (nothing is raised to
\* the caller), is followed by the fixed sleep of one second, and after that
\* by the next PUT when attempts remain and by the return of False when none
\* does; an update whose every PUT raised has made exactly 3 (organization)
\* or 5 (customer) PUTs when it returns, and returns False.
C18_RaiseCountsAsAttempt ==
    /\ pc # "raised"
    /\ \A i \in 1..Len(hist) :
          hist[i][1] = "put_raised" =>
            LET n == Len(Puts(SubSeq(hist, 1, i))) IN
            /\ i < Len(hist)
            /\ hist[i + 1] = <<"sleep", 2>>
            /\ n <= Budget
            /\ n < Budget =>
                  IF i + 1 = Len(hist)
                  THEN pc = "upd_put" /\ attempt = n + 1
                  ELSE IsPut(hist[i + 2])
            /\ n = Budget =>
                  /\ i + 1 = Len(hist)
                  /\ pc = "returned"
                  /\ updRet = "False"
    /\ (UpdReturned /\ Puts(hist) # <<>> /\ Answers(hist) = Rep(Len(Puts(hist)), 0))
          => (Len(Puts(hist)) = Budget /\ updRet = "False")

\* Every one of the five PUTs of a customer update raised.
C18_Witness ==
    /\ top = "update_customer_detail_field"
    /\ pc = "returned"
    /\ Answers(hist) = Rep(5, 0)
    /\ updRet = "False"

-----------------------------------------------------------------------------
(* The fallback search of create_org, under FairSpecOrg *)

IsGet(e) == e[1] = "get"
\* The listing requests of the running call, in order: the start asked for
\* and the page received.
Gets == SelectSeq(hist, IsGet)
\* The ids a page gives for exactly this name.
IdsInPage(page, n) ==
    {page.values[k].id : k \in {j \in 1..Len(page.values) : page.values[j].name = n}}

\* The listing requests of a call: the first asks for start 0 and each next
\* one for the start and the limit the page before reported, further on than
\* any before; a request follows only a page that holds no organization of
\* the name and is not marked last.  The search returns an id a page gave
\* for the name, the pages before holding none, or None after a last page
\* without one; over pages of the listing that is the id of the organization
\* of that name when the platform holds one, and None when it holds none.
C20_Paging ==
    LET n == Strip(CallArg) IN
    /\ Gets # <<>> => Gets[1][2] = 0
    /\ \A i \in 1..Len(Gets) :
          /\ i < Len(Gets) =>
                /\ Gets[i + 1][2] = Gets[i][3].start + Gets[i][3].limit
                /\ Gets[i + 1][2] > Gets[i][2]
                /\ IdsInPage(Gets[i][3], n) = {}
                /\ ~Gets[i][3].isLastPage
          /\ \A j \in 1..Len(Gets) : Gets[i][2] = Gets[j][2] => i = j
    /\ (pc = "org_find" /\ Gets # <<>>) =>
          /\ start = Gets[Len(Gets)][3].start + Gets[Len(Gets)][3].limit
          /\ IdsInPage(Gets[Len(Gets)][3], n) = {}
          /\ ~Gets[Len(Gets)][3].isLastPage
    /\ (pc = "returned" /\ Gets # <<>>) =>
          LET last == Gets[Len(Gets)][3] IN
          IF IdsInPage(last, n) # {}
          THEN org_id \in IdsInPage(last, n)
          ELSE org_id = NoId /\ last.isLastPage
    /\ (pc = "returned" /\ Gets # <<>> /\ ListingAnswered) =>
          IF n \in Range(CallOrgs)
          THEN org_id # NoId /\ CallOrgs[org_id] = n
          ELSE org_id = NoId

\* C20: find_org_id asks for the pages in order of strictly increasing
\* start, each next start the reported start plus the reported limit, never
\* the same page twice; it stops at the first page with an organization of
\* exactly the name, or at the page marked last; it returns that
\* organization's id, None when no page held one; and it ends.
C20_SearchTerminates ==
    /\ []C20_Paging
    /\ (pc = "org_find") ~> (pc \in {"returned", "raised"})

\* A search that read the listing's two pages to the last and found no
\* organization of the name.
C20_Witness ==
    /\ top = "create_org"
    /\ pc = "returned"
    /\ Len(Gets) = 2
    /\ ListingAnswered
    /\ Len(CallOrgs) = 2
    /\ Gets[2][2] = 1
    /\ org_id = NoId

-----------------------------------------------------------------------------
(* C11: which contacts are passed to create_jira_customer *)

\* The contact's email is absent, empty or only whitespace.
BlankEmail(k) ==
    k.Email = None \/ \A i \in 1..Len(k.Email) : k.Email[i] = " "

\* The program is at a contact's customer: in create_jira_customer, or at
\* the contact's field updates.
AtCustomer ==
    \/ pc \in {"cust_post", "cust_search", "cust_ret", "cust_field",
               "cust_field_ret"}
    \/ pc \in {"upd_entry", "upd_put"} /\ updKind = "customer"

\* C11: a contact create_jira_customer is called for has an email that is
\* not blank and a lower-cased role text (position, a space, role) that
\* holds "authorized signatory" or "authorized representative"; the email
\* the call and the field updates get is never empty and carries no outer
\* whitespace.
C11_OnlyQualifyingContacts ==
    /\ Selected =>
          /\ ~BlankEmail(c)
          /\ HasSig(c) \/ HasRep(c)
    /\ (top = "lambda_handler" /\ AtCustomer) =>
          /\ email # <<>>
          /\ email[1] # " "
          /\ email[Len(email)] # " "

\* A contact whose email carries outer whitespace was passed on, the
\* whitespace stripped.
C11_Witness ==
    /\ Selected
    /\ c.Email = <<"E", " ">>
    /\ email = <<"E">>
    /\ c.Position__c = None
    /\ HasRep(c)
    /\ did = {"org", "link", "org_put", "soql"}

-----------------------------------------------------------------------------
(* C14: the queries to the CRM *)

\* C14 as stated: once the run has called the platform, no step queries the
\* CRM.
C14_AsStated ==
    [][jiraCalled => ~(pc \in {"fetch", "contacts_query"} /\ pc' # pc)]_vars

\* C14: the accounts are fetched before any call to the platform; after
\* that the CRM is queried only for an account's contacts, at most once for
\* an account, the account's organization resolved, linked and its fields
\* pushed, and none of its customers resolved, updated or attached yet.
C14_ContactQueryOnly ==
    /\ pc \in {"start", "fetch", "run_except"} => ~jiraCalled
    /\ pc = "contacts_query" =>
          /\ "soql" \notin did
          /\ org_id # NoId
          /\ {"org", "link", "org_put"} \subseteq did
          /\ did \cap {"cust", "cust_put", "attach"} = {}
    /\ "soql" \in did =>
          /\ pc \notin {"start", "fetch", "loop", "org_post", "org_find",
                        "org_ret", "link", "org_field", "org_field_ret"}
          /\ pc \in {"upd_entry", "upd_put"} => updKind = "customer"

\* The second account's contacts were asked for after the platform was
\* called.
C14_Witness ==
    /\ jiraCalled
    /\ ai = 2
    /\ outcome = "done"
    /\ "soql" \in did
    /\ pc = "contact_loop"

-----------------------------------------------------------------------------
(* C19: the links to the service desks, under SpecLink *)

\* The configured keys, in their order.
DeskKeys == <<"MOBILE", "ERT", "SNDBX">>
\* The link request was answered (with whatever status), not raised.
Answered(e) == e[3] # 0

\* C19: link requests are made only for a resolved organization, one for
\* each key in the configured order; a request answered with any status is
\* followed by the request for the next key, and the third by the first of
\* the organization's field updates; only a request that raised ends the
\* account's pipeline.
C19_LinksIndependent ==
    /\ Len(hist) <= Len(DeskKeys)
    /\ \A i \in 1..Len(hist) :
          /\ hist[i][1] = "link"
          /\ hist[i][2] = DeskKeys[i]
          /\ i < Len(hist) => Answered(hist[i])
    /\ hist # <<>> => org_id # NoId
    /\ pc = "acc_skip" => org_id = NoId /\ hist = <<>>
    /\ (hist # <<>> /\ Answered(hist[Len(hist)])) =>
          IF Len(hist) < Len(DeskKeys)
          THEN pc = "link" /\ ki = Len(hist) + 1
          ELSE \/ pc = "org_field" /\ fi = 1
               \/ pc = "upd_entry" /\ updField = "Salesforce Account Id"
    /\ pc = "raised" => hist # <<>> /\ ~Answered(hist[Len(hist)])

\* The three requests were answered 500, 404 and 204, and the first field
\* update is called.
C19_Witness ==
    /\ pc = "upd_entry"
    /\ updKind = "org"
    /\ hist = <<<<"link", "MOBILE", 500>>, <<"link", "ERT", 404>>,
                <<"link", "SNDBX", 204>>>>

-----------------------------------------------------------------------------
(* Claims about an account's pipeline, under SpecAcc.  hist holds the    *)
(* steps of the account being processed, or of the one that has just     *)
(* returned.                                                               *)

\* The place of a step in the stated order of the pipeline.
Stage(e) ==
    CASE e[1] = "begin" -> 0
      [] e[1] = "org" -> 1
      [] e[1] = "link" -> 2
      [] e[1] = "org_field" -> 3
      [] e[1] = "contacts" -> 4
      [] e[1] \in {"resolve", "resolved", "cust_field"} -> 5
      [] e[1] = "attach" -> 6
      [] e[1] = "return" -> 7
\* The place of a contact's step in the contact's work.
Part(e) ==
    CASE e[1] = "resolve" -> 1
      [] e[1] = "resolved" -> 2
      [] e[1] = "cust_field" -> 3
Count(k) == Cardinality({i \in 1..Len(hist) : hist[i][1] = k})
Ended == hist # <<>> /\ hist[Len(hist)][1] = "return"

\* Step f may follow step e, the last of the i steps so far: f is at e's
\* stage (a link, a field or a contact's step) or at a later one; after a
\* contact's step comes the same contact's next part, another of its field
\* updates, or a later contact's resolution; links, fields, contacts and
\* attach follow a resolved organization, the fields the third link, and
\* the contacts' work the query.
Follows(e, f, i) ==
    /\ Stage(e) <= Stage(f)
    /\ Stage(e) = Stage(f) => Stage(e) \in {2, 3, 5}
    /\ (Stage(e) = 5 /\ Stage(f) = 5) =>
          \/ e[2] < f[2] /\ Part(f) = 1
          \/ e[2] = f[2] /\ Part(f) = Part(e) + 1
          \/ e[2] = f[2] /\ Part(e) = 3 /\ Part(f) = 3
    /\ Stage(f) \in 2..6 =>
          /\ i >= 2
          /\ hist[2][1] = "org"
          /\ hist[2][2] # NoId
    /\ (Stage(e) < 3 /\ Stage(f) \in 3..6) =>
          /\ i = 5
          /\ \A k \in 3..5 : hist[k][1] = "link"
    /\ (Stage(e) < 5 /\ Stage(f) \in 5..6) => e[1] = "contacts"
    /\ (Stage(e) < 5 /\ Stage(f) = 5) => Part(f) = 1
    /\ (e[1] = "resolved" /\ f[1] = "cust_field") => e[3] # NoId

\* C15: in an account's pipeline the organization is resolved before any
\* link request, the three link requests come before the first of the
\* organization's field updates, those before the contacts and the first
\* customer resolution; a contact's resolution comes before its field
\* updates and all of them before the next contact's resolution; the attach
\* request comes after every contact's work; and an account's pipeline
\* begins only when the one before has returned.  Stated of every step: a
\* step of the pipeline is one that may follow the step before it.
C15_PipelineOrder ==
    [][(ai' # ai \/ hist' # hist) =>
          IF ai' # ai
          THEN /\ pc = "loop"
               /\ hist # <<>> => Ended
               /\ hist' = <<<<"begin", ai'>>>>
          ELSE /\ hist # <<>>
               /\ Len(hist') = Len(hist) + 1
               /\ SubSeq(hist', 1, Len(hist)) = hist
               /\ Follows(hist[Len(hist)], hist'[Len(hist')], Len(hist))]_vars

\* The second account's pipeline has gone through two contacts and the
\* attach request.
C15_Witness ==
    /\ ai = 2
    /\ Ended
    /\ Count("org_field") = 8
    /\ Count("resolve") = 2
    /\ Count("cust_field") = 8
    /\ Count("attach") = 1

-----------------------------------------------------------------------------
(* C16: the attach request *)

IsResolvedId(e) == e[1] = "resolved" /\ e[3] # NoId
IsAttach(e) == e[1] = "attach"
\* The ids create_jira_customer returned for the account's contacts, in the
\* contacts' order.
ResolvedIds ==
    LET r == SelectSeq(hist, IsResolvedId) IN [i \in 1..Len(r) |-> r[i][3]]

\* C16: at most one attach request is made for an account; it carries the
\* ids create_jira_customer returned for the account's contacts, in their
\* order and nothing else; and none is made when no id was returned.
C16_SingleAttach ==
    /\ Count("attach") <= 1
    /\ \A i \in 1..Len(hist) :
          IsAttach(hist[i]) =>
            /\ hist[i][2] = ResolvedIds
            /\ hist[i][2] # <<>>
    /\ pc = "attach" => account_ids = ResolvedIds /\ account_ids # <<>>
    /\ (Ended /\ hist[Len(hist)][2] = "acc_end") =>
          (Count("attach") = 1 <=> ResolvedIds # <<>>)

\* Two contacts were resolved, to the same customer, and attached.
C16_Witness ==
    /\ Ended
    /\ Count("attach") = 1
    /\ ResolvedIds = <<1, 1>>

\* An account with contacts, none resolved, ended without an attach request.
C16_WitnessEmpty ==
    /\ Ended
    /\ hist[Len(hist)][2] = "acc_end"
    /\ Count("resolve") = 2
    /\ Count("attach") = 0

-----------------------------------------------------------------------------
(* C17: the organization's fields *)

FieldOrder ==
    <<"Salesforce Account Id", "Company Name", "Company Address", "Industry",
      "Customer Type", "Account Manager", "Sales Cluster", "Sales Area">>
WithoutManager ==
    <<"Salesforce Account Id", "Company Name", "Company Address", "Industry",
      "Customer Type", "Sales Cluster", "Sales Area">>
IsOrgField(e) == e[1] = "org_field"
\* The fields update_org_detail_field was called for, in order.
FieldsCalled ==
    LET f == SelectSeq(hist, IsOrgField) IN [i \in 1..Len(f) |-> f[i][2]]

\* The fields called for are in the fixed order, the account manager's left
\* out or not, and all called for once the contacts are asked for; the
\* account manager's is called with a name.
C17_Order ==
    /\ \/ IsPrefix(FieldsCalled, FieldOrder)
       \/ IsPrefix(FieldsCalled, WithoutManager)
    /\ Count("contacts") = 1 => FieldsCalled \in {FieldOrder, WithoutManager}
    /\ (pc \in {"upd_entry", "upd_put", "org_field_ret"} /\ updKind = "org") =>
          /\ FieldsCalled # <<>>
          /\ updField = FieldsCalled[Len(FieldsCalled)]
          /\ updField = "Account Manager" => updValue \notin {None, <<>>}
          /\ updField = "Customer Type" => updValue = <<"Customer">>

\* C17: update_org_detail_field is called for the organization's fields in
\* the fixed order, for the account manager only with a name; whether a
\* field update returned True or False, the next field's follows (a PUT
\* being made for a value that is not empty), and after the last the
\* contacts are asked for.
C17_FieldsIndependent ==
    /\ []C17_Order
    /\ [][/\ pc = "org_field_ret" =>
                /\ updRet \in {"True", "False"}
                /\ IF updField = "Sales Area"
                   THEN pc' = "contacts_query"
                   ELSE pc' = "org_field"
          /\ (pc = "org_field" /\ Len(FieldsCalled) # 5) =>
                /\ pc' = "upd_entry"
                /\ Len(FieldsCalled') = Len(FieldsCalled) + 1
          /\ (pc = "upd_entry" /\ updKind = "org"
                /\ updValue \notin {None, <<>>}) => pc' = "upd_put"]_vars

\* The update of the second field has returned False after its three
\* attempts, and the pipeline goes on from there.
C17_Witness ==
    /\ top = "process_single_account"
    /\ pc = "org_field_ret"
    /\ updField = "Company Name"
    /\ updRet = "False"
    /\ attempt = 3

-----------------------------------------------------------------------------
(* C12: the contacts of an account *)

\* C12: a failure in the resolution or the field updates of one contact
\* does not keep the customers already resolved from being attached: when
\* the account's pipeline has ended, however the work on its contacts went,
\* the ids create_jira_customer returned were sent in an attach request.
C12_ContactsIndependent ==
    (Ended /\ ResolvedIds # <<>>) => Count("attach") = 1

=============================================================================
